---- MODULE Spec2Model ----
(***************************************************************************)
(* The poll()-based echo server of issue_codes/15_server.py: one listening *)
(* socket, a poller, the descriptor map fd_to_sockets, the per-socket      *)
(* outbound queues message_queues, and the run loop that dispatches each   *)
(* (fd, flag) event of a poll batch through the if/elif flag chain.        *)
(*                                                                         *)
(* Socket objects are numbered: Server is the listening socket, 1, 2, ...  *)
(* are the accepted connections in accept order.  Descriptors are handed   *)
(* out by the operating system, lowest free number first, so a descriptor  *)
(* closed by a teardown is reused by the next accept.  The operating       *)
(* system decides what poll() reports and what accept, recv, send and      *)
(* getpeername return; each such outcome is a nondeterministic choice.     *)
(***************************************************************************)
EXTENDS Integers, Sequences, FiniteSets, TLC

VARIABLES
    pc,              \* "poll": at line 43; "dispatch": in the for loop; "crashed": uncaught exception
    events,          \* the events of the current batch not yet dispatched (line 45)
    exception,       \* the uncaught exception that ended the loop, or "none"
    open,            \* socket objects on which close() has not been called
    fileno,          \* socket object -> the descriptor the OS gave it
    poller,          \* registered descriptor -> event mask
    fd_to_sockets,   \* descriptor -> socket object (line 38)
    message_queues,  \* socket object -> FIFO of chunks (line 24)
    client_address,  \* the module-level name bound by accept (line 53), Unbound before
    nsock,           \* number of connections accepted so far
    received,        \* history: socket -> chunks recv returned on it
    sent,            \* history: socket -> byte strings send transmitted on it
    zeroRead,        \* history: sockets on which recv returned zero bytes
    last             \* history: the event of this batch dispatched last and the calls made for it

vars == <<pc, events, exception, open, fileno, poller, fd_to_sockets,
          message_queues, client_address, nsock, received, sent, zeroRead, last>>

(***************************************************************************)
(* Bounds of the model.                                                    *)
(***************************************************************************)
MaxAccepts == 2      \* connections accepted over the whole run
MaxRecv == 2         \* non-empty receives per connection
MaxBatch == 2        \* events returned by one poll() call

(***************************************************************************)
(* Program constants.                                                      *)
(***************************************************************************)
Server == 0          \* the listening socket object (line 12)
ServerFd == 3        \* server.fileno(): the first descriptor after stdin, stdout, stderr
Unbound == <<>>

POLLIN == "POLLIN"
POLLPRI == "POLLPRI"
POLLHUP == "POLLHUP"
POLLOUT == "POLLOUT"
POLLERR == "POLLERR"

READ_ONLY == {POLLIN, POLLPRI, POLLHUP, POLLERR}
READ_WRITE == READ_ONLY \cup {POLLOUT}

\* The byte strings a client may send in one piece (each at most 1024 bytes).
Data == {<<1>>, <<1, 2>>}

Conns == 1 .. MaxAccepts
Fds == ServerFd .. (ServerFd + MaxAccepts)

(***************************************************************************)
(* Dictionaries.                                                           *)
(***************************************************************************)
EmptyMap == [x \in {} |-> x]
Put(f, k, v) == [x \in DOMAIN f \cup {k} |-> IF x = k THEN v ELSE f[x]]
Del(f, k) == [x \in DOMAIN f \ {k} |-> f[x]]

\* Variant: the test forgets the urgent bit.
ReadableIgnoringUrgent(flag) == POLLIN \in flag

\* flag & (select.POLLIN | select.POLLPRI)
Readable(flag) == flag \cap {POLLIN, POLLPRI} # {}

\* Descriptors held by open sockets.
OpenFds == {fileno[s] : s \in open}

\* The descriptor the OS gives the next socket: the lowest one not in use.
NewFd == CHOOSE fd \in Fds : fd \notin OpenFds /\ \A g \in Fds : g < fd => g \in OpenFds

\* No event of the current batch has been dispatched yet.
NoEvent == [fd |-> ServerFd, flag |-> {}, sock |-> Server, ops |-> <<>>, qlen |-> 0]

Init ==
    /\ pc = "poll"
    /\ events = <<>>
    /\ exception = "none"
    /\ open = {Server}
    /\ fileno = [s \in {Server} |-> ServerFd]
    /\ poller = [fd \in {ServerFd} |-> READ_ONLY]
    /\ fd_to_sockets = [fd \in {ServerFd} |-> Server]
    /\ message_queues = EmptyMap
    /\ client_address = Unbound
    /\ nsock = 0
    /\ received = [s \in Conns |-> <<>>]
    /\ sent = [s \in Conns |-> <<>>]
    /\ zeroRead = {}
    /\ last = NoEvent

(***************************************************************************)
(* poll(TIMEOUT), line 43.  The OS reports some of the registered          *)
(* descriptors, each at most once, in an unspecified order, and for each a *)
(* non-empty set of the bits of the mask registered at that moment (the    *)
(* masks of lines 30-31 name every bit the code tests).  The code does not *)
(* look at the bits of an event before its turn in the for loop, so the    *)
(* batch keeps the mask and the bits are drawn when the event is           *)
(* dispatched.  The listening socket is readable only while a client is    *)
(* still to connect.                                                       *)
(***************************************************************************)
RECURSIVE Batches(_, _)
Batches(n, fds) ==
    IF n = 0 THEN {<<>>}
    ELSE {<<>>} \cup
         UNION {{<<[fd |-> fd, mask |-> poller[fd]]>> \o rest :
                    rest \in Batches(n - 1, fds \ {fd})} :
                fd \in fds}

\* poll() timed out with no ready descriptor: the for loop runs zero times.
PollTimeout ==
    /\ pc = "poll"
    /\ UNCHANGED vars

PollReady ==
    /\ pc = "poll"
    /\ \E b \in Batches(MaxBatch, DOMAIN poller) :
        /\ b # <<>>
        /\ events' = b
    /\ pc' = "dispatch"
    /\ last' = NoEvent
    /\ UNCHANGED <<exception, open, fileno, poller, fd_to_sockets, message_queues,
                   client_address, nsock, received, sent, zeroRead>>

(***************************************************************************)
(* The body of the for loop, lines 45-104, for the first pending event.    *)
(***************************************************************************)
ev == Head(events)
s == fd_to_sockets[ev.fd]

\* The flag of the event: the bits the OS reported for ev.fd.
Reported ==
    {F \in SUBSET ev.mask :
        /\ F # {}
        /\ (s = Server /\ nsock >= MaxAccepts) => ~Readable(F)}

Log(flag, ops, q) == [fd |-> ev.fd, flag |-> flag, sock |-> s, ops |-> ops, qlen |-> q]

QLen(x) == IF x \in DOMAIN message_queues THEN Len(message_queues[x]) ELSE 0

\* The handler returned: the for loop takes the next event, or goes back to poll().
Return(flag, ops) ==
    /\ events' = Tail(events)
    /\ pc' = IF Tail(events) = <<>> THEN "poll" ELSE "dispatch"
    /\ exception' = "none"
    /\ last' = Log(flag, ops, QLen(s))

\* The handler raised: nothing catches it, the interpreter leaves the loop.
Raise(flag, exc, ops) ==
    /\ events' = <<>>
    /\ pc' = "crashed"
    /\ exception' = exc
    /\ last' = Log(flag, ops, QLen(s))

\* getpeername() of a print statement: the listening socket has no peer
\* (ENOTCONN); a connection has one unless it was reset meanwhile.
PeernameOutcomes(x) == IF x = Server THEN {"error"} ELSE {"ok", "error"}

\* Variant: a new connection is registered for writing at once.
AcceptMaskReadWrite == READ_WRITE

\* The mask of poller.register(connection, READ_ONLY), line 57.
AcceptMask == READ_ONLY

\* Variant: an existing entry of the descriptor map is kept (setdefault).
FdMapKeepsOldEntry(fd, c) ==
    IF fd \in DOMAIN fd_to_sockets THEN fd_to_sockets ELSE Put(fd_to_sockets, fd, c)

\* fd_to_sockets[connection.fileno()] = connection, line 56.
FdMapAfterAccept(fd, c) == Put(fd_to_sockets, fd, c)

\* Lines 52-60: a readable listening socket.
AcceptEvent(flag) ==
    /\ Readable(flag)
    /\ s = Server
    /\ \E r \in {"ok", "error"} :
        IF r = "ok"
        THEN LET c == nsock + 1
                 fd == NewFd
             IN /\ nsock' = c
                /\ client_address' = <<c>>
                /\ open' = open \cup {c}
                /\ fileno' = Put(fileno, c, fd)
                /\ fd_to_sockets' = FdMapAfterAccept(fd, c)
                /\ poller' = Put(poller, fd, AcceptMask)
                /\ message_queues' = Put(message_queues, c, <<>>)
                /\ Return(flag, <<"accept", "register">>)
                /\ UNCHANGED <<received, sent, zeroRead>>
        ELSE /\ Raise(flag, "socket.error", <<"accept">>)
             /\ UNCHANGED <<open, fileno, poller, fd_to_sockets, message_queues,
                            client_address, nsock, received, sent, zeroRead>>

\* s.recv(1024), line 62: an OS error, zero bytes (the peer closed), or bytes.
RecvOutcomes(x) ==
    {[ok |-> FALSE, data |-> <<>>], [ok |-> TRUE, data |-> <<>>]}
    \cup {[ok |-> TRUE, data |-> d] :
            d \in IF Len(received[x]) < MaxRecv THEN Data ELSE {}}

\* s.send(next_msg), line 96: an OS error (0), or the number of bytes
\* transmitted, which may be less than the length of the message.
SendOutcomes(msg) == 0 .. Len(msg)

\* Queue.put, line 68.
Enqueue(q, data) == Append(q, data)

\* Variant: the teardown forgets to unregister.
UnregisterForgotten(x) == poller

\* poller.unregister(s), lines 74, 84, 100.
Unregister(x) == Del(poller, fileno[x])

\* Variant: modify always registers READ_WRITE.
ModifyAlwaysReadWrite(x, mask) == Put(poller, fileno[x], READ_WRITE)

\* Variant: the call of modify is left out.
ModifyIgnored(x, mask) == poller

\* poller.modify(s, mask), lines 69, 93.
Modify(x, mask) == Put(poller, fileno[x], mask)

\* Variants: a teardown that keeps the queue; a teardown that drops every queue.
QueuesKept(x) == message_queues
QueuesAllDropped(x) == EmptyMap

\* The queue map after the teardown of each branch: lines 78 and 104 delete
\* the queue, the POLLHUP branch (lines 80-85) has no such statement.
QueuesAfterEmptyRead(x) == Del(message_queues, x)
QueuesAfterHangup(x) == message_queues
QueuesAfterError(x) == Del(message_queues, x)

\* The descriptor map after a teardown: no branch deletes from fd_to_sockets.
FdMapAfterTeardown(x) == fd_to_sockets

\* Lines 61-78: a readable connection.
RecvEvent(flag) ==
    /\ Readable(flag)
    /\ s # Server
    /\ \E r \in RecvOutcomes(s), p \in PeernameOutcomes(s) :
        IF ~r.ok
        THEN /\ p = "ok"
             /\ Raise(flag, "socket.error", <<"recv">>)
             /\ UNCHANGED <<open, fileno, poller, fd_to_sockets, message_queues,
                            client_address, nsock, received, sent, zeroRead>>
        ELSE IF r.data # <<>>
        THEN /\ received' = [received EXCEPT ![s] = Append(@, r.data)]
             /\ IF p = "error"
                THEN /\ Raise(flag, "socket.error", <<"recv", "getpeername">>)
                     /\ UNCHANGED <<poller, message_queues>>
                ELSE IF s \notin DOMAIN message_queues
                THEN /\ Raise(flag, "KeyError", <<"recv", "getpeername">>)
                     /\ UNCHANGED <<poller, message_queues>>
                ELSE /\ message_queues' =
                            [message_queues EXCEPT ![s] = Enqueue(@, r.data)]
                     /\ poller' = Modify(s, READ_WRITE)
                     /\ Return(flag, <<"recv", "getpeername", "put", "modify">>)
             /\ UNCHANGED <<open, fileno, fd_to_sockets, client_address, nsock,
                            sent, zeroRead>>
        ELSE /\ p = "ok"
             /\ zeroRead' = zeroRead \cup {s}
             /\ IF client_address = Unbound
                THEN /\ Raise(flag, "NameError", <<"recv">>)
                     /\ UNCHANGED <<open, poller, fd_to_sockets, message_queues>>
                ELSE /\ poller' = Unregister(s)
                     /\ open' = open \ {s}
                     /\ fd_to_sockets' = FdMapAfterTeardown(s)
                     /\ IF s \in DOMAIN message_queues
                        THEN /\ message_queues' = QueuesAfterEmptyRead(s)
                             /\ Return(flag, <<"recv", "unregister", "close", "del">>)
                        ELSE /\ Raise(flag, "KeyError", <<"recv", "unregister", "close">>)
                             /\ UNCHANGED message_queues
             /\ UNCHANGED <<fileno, client_address, nsock, received, sent>>

\* Lines 80-85: hangup, no readable bit.
HangupEvent(flag) ==
    /\ ~Readable(flag)
    /\ POLLHUP \in flag
    /\ IF client_address = Unbound
       THEN /\ Raise(flag, "NameError", <<>>)
            /\ UNCHANGED <<open, poller, fd_to_sockets, message_queues>>
       ELSE /\ poller' = Unregister(s)
            /\ open' = open \ {s}
            /\ fd_to_sockets' = FdMapAfterTeardown(s)
            /\ message_queues' = QueuesAfterHangup(s)
            /\ Return(flag, <<"unregister", "close">>)
    /\ UNCHANGED <<fileno, client_address, nsock, received, sent, zeroRead>>

\* Lines 86-96: writable, no readable and no hangup bit.
WritableEvent(flag) ==
    /\ ~Readable(flag)
    /\ POLLHUP \notin flag
    /\ POLLOUT \in flag
    /\ \E p \in PeernameOutcomes(s) :
        IF s \notin DOMAIN message_queues
        THEN /\ p = "error"
             /\ Raise(flag, "KeyError", <<>>)
             /\ UNCHANGED <<poller, message_queues, sent>>
        ELSE IF message_queues[s] = <<>>
        THEN /\ UNCHANGED <<message_queues, sent>>
             /\ IF p = "error"
                THEN /\ Raise(flag, "socket.error", <<"get_nowait", "getpeername">>)
                     /\ UNCHANGED poller
                ELSE /\ poller' = Modify(s, READ_ONLY)
                     /\ Return(flag, <<"get_nowait", "getpeername", "modify">>)
        ELSE LET next_msg == Head(message_queues[s])
             IN /\ message_queues' = [message_queues EXCEPT ![s] = Tail(@)]
                /\ UNCHANGED poller
                /\ IF p = "error"
                   THEN /\ Raise(flag, "socket.error", <<"get_nowait", "getpeername">>)
                        /\ UNCHANGED sent
                   ELSE \E n \in SendOutcomes(next_msg) :
                        IF n = 0
                        THEN /\ Raise(flag, "socket.error", <<"get_nowait", "getpeername", "send">>)
                             /\ UNCHANGED sent
                        ELSE /\ sent' = [sent EXCEPT ![s] = Append(@, SubSeq(next_msg, 1, n))]
                             /\ Return(flag, <<"get_nowait", "getpeername", "send">>)
    /\ UNCHANGED <<open, fileno, fd_to_sockets, client_address, nsock, received, zeroRead>>

\* Lines 98-104: error, no other bit the chain tests.
ErrorEvent(flag) ==
    /\ ~Readable(flag)
    /\ POLLHUP \notin flag
    /\ POLLOUT \notin flag
    /\ POLLERR \in flag
    /\ \E p \in PeernameOutcomes(s) :
        IF p = "error"
        THEN /\ Raise(flag, "socket.error", <<"getpeername">>)
             /\ UNCHANGED <<open, poller, fd_to_sockets, message_queues>>
        ELSE /\ poller' = Unregister(s)
             /\ open' = open \ {s}
             /\ fd_to_sockets' = FdMapAfterTeardown(s)
             /\ IF s \in DOMAIN message_queues
                THEN /\ message_queues' = QueuesAfterError(s)
                     /\ Return(flag, <<"getpeername", "unregister", "close", "del">>)
                ELSE /\ Raise(flag, "KeyError", <<"getpeername", "unregister", "close">>)
                     /\ UNCHANGED message_queues
    /\ UNCHANGED <<fileno, client_address, nsock, received, sent, zeroRead>>

\* One turn of the for loop: the if/elif chain picks the branch by the flag.
Accept == pc = "dispatch" /\ \E flag \in Reported : AcceptEvent(flag)
Recv == pc = "dispatch" /\ \E flag \in Reported : RecvEvent(flag)
Hangup == pc = "dispatch" /\ \E flag \in Reported : HangupEvent(flag)
Writable == pc = "dispatch" /\ \E flag \in Reported : WritableEvent(flag)
Error == pc = "dispatch" /\ \E flag \in Reported : ErrorEvent(flag)

Next ==
    \/ PollTimeout
    \/ PollReady
    \/ Accept
    \/ Recv
    \/ Hangup
    \/ Writable
    \/ Error

Spec == Init /\ [][Next]_vars

\* The loop is scheduled as long as the process lives, and a connection
\* registered for READ_WRITE is reported writable again and again.
WritableOn(c) == Writable /\ s = c
FairSpec == Spec /\ WF_vars(Next) /\ \A c \in Conns : SF_vars(WritableOn(c))

(***************************************************************************)
(* Properties.                                                             *)
(***************************************************************************)
IsPrefix(a, b) == Len(a) <= Len(b) /\ \A i \in 1 .. Len(a) : a[i] = b[i]

OpenConns == open \ {Server}

\* C1: on every connection, what the server has sent is a prefix of the
\* chunks it has received there: same contents, order and boundaries.
C1_SentIsPrefixOfReceived == \A c \in Conns : IsPrefix(sent[c], received[c])

\* C2: under the fairness of FairSpec, the k-th chunk received on a
\* connection that stays open is eventually sent back on it.
C2_EveryChunkEchoed ==
    \A c \in Conns : \A k \in 1 .. MaxRecv :
        [](Len(received[c]) >= k =>
            <>(c \notin open \/ (Len(sent[c]) >= k /\ sent[c][k] = received[c][k])))

\* The calls logged for the event dispatched last.
Count(x) == Cardinality({i \in 1 .. Len(last.ops) : last.ops[i] = x})
Did(x) == Count(x) > 0

\* A flag that reaches the POLLOUT branch of the chain.
WritableOnly(flag) == flag \cap {POLLIN, POLLPRI, POLLHUP} = {} /\ POLLOUT \in flag

C4_QueuesAreOpenConnections == pc = "poll" => DOMAIN message_queues = OpenConns

\* C5: at every call of poll(), the accepted sockets in fd_to_sockets are
\* exactly the accepted sockets that have not been closed.
C5_DescriptorMapHoldsOpenConnections ==
    pc = "poll" =>
        {fd_to_sockets[fd] : fd \in DOMAIN fd_to_sockets} \ {Server} = OpenConns

\* C6: a connection that has received no data has had nothing sent and
\* nothing queued; once its receive has returned zero bytes it is closed,
\* has no queue, and no registered descriptor resolves to it.
C6_ZeroByteFirstReceive ==
    \A c \in Conns :
        received[c] = <<>> =>
            /\ sent[c] = <<>>
            /\ QLen(c) = 0
            /\ c \in zeroRead =>
                /\ c \notin open
                /\ c \notin DOMAIN message_queues
                /\ \A fd \in DOMAIN poller : fd_to_sockets[fd] # c

C6_Witness ==
    \E c \in zeroRead :
        /\ received[c] = <<>>
        /\ \E d \in OpenConns : fileno[d] = fileno[c] /\ received[d] # <<>>

\* C7: the handling of an event for one socket leaves the queue, the mask,
\* the open status and the descriptor-map entry of every other open
\* connection as they were.
C7_OtherConnectionsUntouched ==
    [][pc = "dispatch" =>
        \A b \in OpenConns \ {s} :
            /\ b \in open'
            /\ fileno'[b] = fileno[b]
            /\ fd_to_sockets'[fileno[b]] = fd_to_sockets[fileno[b]]
            /\ b \in DOMAIN message_queues =>
                (b \in DOMAIN message_queues' /\ message_queues'[b] = message_queues[b])
            /\ fileno[b] \in DOMAIN poller =>
                (fileno[b] \in DOMAIN poller' /\ poller'[fileno[b]] = poller[fileno[b]])]_vars

C7_Witness ==
    /\ Did("close")
    /\ last.sock \in Conns \ open
    /\ \E b \in OpenConns :
        /\ QLen(b) > 0
        /\ poller[fileno[b]] = READ_WRITE
        /\ fd_to_sockets[fileno[b]] = b

\* C8: no failure and no error or hangup indicator aborts the loop, and the
\* handling of an event closes at most the socket of that event.
C8_FailuresStayLocal ==
    [][pc = "dispatch" => (pc' # "crashed" /\ (open \ open') \subseteq {s})]_vars

\* C9: the loop never stops: it is at poll() or inside the for loop.
C9_LoopNeverStops == pc \in {"poll", "dispatch"}

\* C10: for every event exactly one branch runs, the first of readable or
\* urgent, hangup, writable, error that the flag matches; it makes at most
\* one of the calls accept, recv, send, and a send or a hangup/error
\* teardown never accompanies a receive.
C10_OneRulePerEvent ==
    last.flag # {} =>
        /\ Count("accept") + Count("recv") + Count("send") <= 1
        /\ Count("close") <= 1
        /\ IF last.flag \cap {POLLIN, POLLPRI} # {}
           THEN /\ IF last.sock = Server THEN Count("accept") = 1 ELSE Count("recv") = 1
                /\ ~Did("send") /\ ~Did("get_nowait")
                /\ Did("close") => last.ops = <<"recv", "unregister", "close", "del">>
           ELSE IF POLLHUP \in last.flag
           THEN /\ ~Did("accept") /\ ~Did("recv") /\ ~Did("send") /\ ~Did("get_nowait")
                /\ exception = "none" => Did("close")
           ELSE IF POLLOUT \in last.flag
           THEN /\ ~Did("accept") /\ ~Did("recv") /\ ~Did("close")
                /\ exception # "KeyError" => Count("get_nowait") = 1
                /\ Did("send") => last.qlen > 0
                /\ Did("modify") => last.qlen = 0
           ELSE /\ POLLERR \in last.flag
                /\ ~Did("accept") /\ ~Did("recv") /\ ~Did("send") /\ ~Did("get_nowait")
                /\ exception = "none" => Did("close")

C10_Witness ==
    /\ {POLLIN, POLLOUT} \subseteq last.flag
    /\ last.qlen > 0
    /\ last.ops = <<"recv", "getpeername", "put", "modify">>
    /\ QLen(last.sock) = last.qlen + 1
    /\ sent[last.sock] = <<>>

\* The calls logged for the step being taken.
DoesNow(x) == \E i \in 1 .. Len(last'.ops) : last'.ops[i] = x

\* C11: unregister, close and queue deletion are only ever performed on a
\* socket that is still open and registered under the event's descriptor,
\* hence at most once per connection.
C11_TeardownAtMostOnce ==
    [][(/\ pc = "dispatch"
        /\ last'.fd = ev.fd
        /\ (DoesNow("unregister") \/ DoesNow("close") \/ DoesNow("del")))
       => /\ s \in open
          /\ s \notin open'
          /\ fileno[s] = ev.fd
          /\ ev.fd \in DOMAIN poller
          /\ DoesNow("del") => s \in DOMAIN message_queues]_vars

C11_Witness ==
    /\ Did("close")
    /\ nsock = MaxAccepts
    /\ OpenConns = {}
    /\ \E c, d \in Conns : c # d /\ fileno[c] = fileno[d]

\* C12: when a writable event dequeues a chunk and the handler returns, the
\* whole chunk has been transmitted (no remainder is kept pending by the
\* code, so nothing less than the whole chunk loses bytes).
C12_DequeuedChunkSentInFull ==
    [][(/\ pc = "dispatch"
        /\ pc' # "crashed"
        /\ s \in DOMAIN message_queues
        /\ s \in DOMAIN message_queues'
        /\ message_queues[s] # <<>>
        /\ message_queues'[s] = Tail(message_queues[s]))
       => /\ Len(sent'[s]) = Len(sent[s]) + 1
          /\ sent'[s][Len(sent'[s])] = Head(message_queues[s])]_vars

\* C13: a readable event on the listening socket whose accept succeeds adds
\* exactly one connection, with an empty queue, a READ_ONLY registration
\* and a descriptor-map entry, under a descriptor no open socket holds; the
\* listening socket stays registered and nothing else changes.
C13_AcceptAddsOneConnection ==
    [][(/\ pc = "dispatch"
        /\ last'.fd = ev.fd
        /\ s = Server
        /\ Readable(last'.flag)
        /\ pc' # "crashed")
       => \E c \in Conns \ DOMAIN fileno :
            /\ open' = open \cup {c}
            /\ DOMAIN fileno' = DOMAIN fileno \cup {c}
            /\ \A x \in DOMAIN fileno : fileno'[x] = fileno[x]
            /\ fileno'[c] \notin OpenFds
            /\ fileno'[c] \notin DOMAIN poller
            /\ c \notin DOMAIN message_queues
            /\ message_queues' = Put(message_queues, c, <<>>)
            /\ poller' = Put(poller, fileno'[c], READ_ONLY)
            /\ fd_to_sockets' = Put(fd_to_sockets, fileno'[c], c)
            /\ Server \in open'
            /\ poller'[ServerFd] = READ_ONLY
            /\ fd_to_sockets'[ServerFd] = Server
            /\ received' = received /\ sent' = sent]_vars

C13_Witness ==
    /\ last.ops = <<"accept", "register">>
    /\ last.sock = Server
    /\ nsock = MaxAccepts
    /\ Cardinality(OpenConns) = MaxAccepts
    /\ \E b \in OpenConns : QLen(b) > 0 /\ poller[fileno[b]] = READ_WRITE

\* C14: a readable event on a connection whose recv returns data appends
\* exactly that chunk to the tail of the connection's own queue and leaves
\* the connection registered READ_WRITE.
C14_ReceiveEnqueuesOneChunk ==
    [][(/\ pc = "dispatch"
        /\ last'.fd = ev.fd
        /\ s # Server
        /\ received'[s] # received[s])
       => /\ s \in DOMAIN message_queues /\ s \in DOMAIN message_queues'
          /\ message_queues'[s] =
                Append(message_queues[s], received'[s][Len(received'[s])])
          /\ poller'[ev.fd] = READ_WRITE
          /\ s \in open']_vars

\* C14 without the uncaught exception: what the branch does when it returns.
C14_ReceiveEnqueuesWhenReturning ==
    [][(/\ pc = "dispatch"
        /\ pc' # "crashed"
        /\ last'.fd = ev.fd
        /\ s # Server
        /\ received'[s] # received[s])
       => /\ received'[s] = Append(received[s], received'[s][Len(received'[s])])
          /\ message_queues' = [message_queues EXCEPT
                ![s] = Append(@, received'[s][Len(received'[s])])]
          /\ poller' = Put(poller, ev.fd, READ_WRITE)
          /\ s \in open']_vars

\* C15: a writable-only event on a connection with a non-empty queue
\* removes exactly the oldest chunk, sends that chunk and keeps READ_WRITE;
\* with an empty queue it sends nothing, leaves the queue empty and
\* registers READ_ONLY.
C15_WritableSendsOldestOrLowers ==
    [][(/\ pc = "dispatch"
        /\ last'.fd = ev.fd
        /\ WritableOnly(last'.flag)
        /\ s \in DOMAIN message_queues)
       => IF message_queues[s] # <<>>
          THEN /\ message_queues' = [message_queues EXCEPT ![s] = Tail(@)]
               /\ sent' = [sent EXCEPT ![s] = Append(@, Head(message_queues[s]))]
               /\ poller' = poller /\ poller[ev.fd] = READ_WRITE
          ELSE /\ message_queues' = message_queues
               /\ sent' = sent
               /\ poller' = Put(poller, ev.fd, READ_ONLY)]_vars

\* C15 without the uncaught exception and the short write: what the branch
\* does when it returns.
C15_WritableWhenReturning ==
    [][(/\ pc = "dispatch"
        /\ pc' # "crashed"
        /\ last'.fd = ev.fd
        /\ WritableOnly(last'.flag)
        /\ s \in DOMAIN message_queues)
       => IF message_queues[s] # <<>>
          THEN /\ message_queues' = [message_queues EXCEPT ![s] = Tail(@)]
               /\ \E n \in 1 .. Len(Head(message_queues[s])) :
                    sent' = [sent EXCEPT
                        ![s] = Append(@, SubSeq(Head(message_queues[s]), 1, n))]
               /\ poller' = poller /\ poller[ev.fd] = READ_WRITE
          ELSE /\ message_queues' = message_queues
               /\ sent' = sent
               /\ poller' = Put(poller, ev.fd, READ_ONLY)]_vars

\* The position of a call in the log of the event dispatched last (0: absent).
IndexOf(x) ==
    IF Did(x) THEN CHOOSE i \in 1 .. Len(last.ops) :
                        last.ops[i] = x /\ \A j \in 1 .. (i - 1) : last.ops[j] # x
    ELSE 0

\* C16: every teardown unregisters before it closes; no registered
\* descriptor and no event of the current batch belongs to a closed socket.
C16_NoClosedSocketRegistered ==
    /\ Did("close") => (Did("unregister") /\ IndexOf("unregister") < IndexOf("close"))
    /\ DOMAIN poller \subseteq OpenFds
    /\ \A c \in DOMAIN fileno \ open :
        \A fd \in DOMAIN poller : fd_to_sockets[fd] # c
    /\ \A i \in 1 .. Len(events) :
        /\ events[i].fd \in OpenFds
        /\ fd_to_sockets[events[i].fd] \in open

C16_Witness ==
    /\ pc = "dispatch"
    /\ Did("close")
    /\ last.sock \in Conns \ open
    /\ last.fd \notin DOMAIN poller
    /\ fd_to_sockets[last.fd] = last.sock
    /\ fd_to_sockets[events[1].fd] \in OpenConns

\* C17: the listening socket is always open, registered READ_ONLY, in the
\* descriptor map and without a queue.
C17_ListeningSocketPermanent ==
    /\ Server \in open
    /\ ServerFd \in DOMAIN poller
    /\ poller[ServerFd] = READ_ONLY
    /\ fd_to_sockets[ServerFd] = Server
    /\ Server \notin DOMAIN message_queues

\* C18: every registered descriptor, and the descriptor of every event of
\* the current batch, has an entry in fd_to_sockets, and the entry is the
\* open socket that holds that descriptor.
C18_LookupResolvesToOpenSocket ==
    \A fd \in DOMAIN poller \cup {events[i].fd : i \in 1 .. Len(events)} :
        /\ fd \in DOMAIN fd_to_sockets
        /\ fd_to_sockets[fd] \in open
        /\ fileno[fd_to_sockets[fd]] = fd

C18_Witness ==
    /\ pc = "dispatch"
    /\ \E c \in DOMAIN fileno \ open, d \in OpenConns :
        /\ fileno[c] = fileno[d]
        /\ ev.fd = fileno[d]
        /\ fd_to_sockets[ev.fd] = d

\* C19: every open connection with a non-empty queue is registered for
\* READ_WRITE.
C19_PendingDataIsWatched ==
    \A c \in OpenConns :
        QLen(c) > 0 =>
            /\ fileno[c] \in DOMAIN poller
            /\ poller[fileno[c]] = READ_WRITE

C19_Witness ==
    /\ pc = "poll"
    /\ \E c \in OpenConns :
        /\ QLen(c) = MaxRecv
        /\ poller[fileno[c]] = READ_WRITE
    /\ \E d \in OpenConns :
        /\ QLen(d) = 0
        /\ sent[d] # <<>>
        /\ poller[fileno[d]] = READ_ONLY
====
